---- MODULE Spec2Model ----
(***************************************************************************)
(* State-machine model of pdf_book_download_from_zxxeducn.py: the catalog  *)
(* sequence resolver (get_book_by_sequence_number), the metadata resolver  *)
(* (get_pdf_url), the CDN fallback loop (download_pdf_with_cdn_fallback)   *)
(* and the drivers behind pdf_download.  The program is single threaded:   *)
(* one program counter, pc, walks through the functions; every network     *)
(* request and every file operation is one step whose outcome the          *)
(* environment chooses.                                                    *)
(***************************************************************************)
EXTENDS Integers, Sequences, FiniteSets, TLC

(***************************************************************************)
(* Bounds of the model.                                                    *)
(***************************************************************************)
\* get_book_by_sequence_number on its own: shard lists of up to
\* ResolveMaxShards shards of up to ResolveMaxShardSize books each.
ResolveMaxShards == 3
ResolveMaxShardSize == 3
\* download_pdf_with_cdn_fallback on its own: up to FetchMaxCandidates URLs.
FetchMaxCandidates == 3
\* pdf_download: shard lists of 1..MaxShards shards of up to MaxShardSize
\* books; sequence numbers, range bounds, --single and --limit up to MaxSeq;
\* detail documents with up to MaxStorages storage URLs; at most MaxFaults
\* requests or file operations of one run go wrong.
MaxShards == 2
MaxShardSize == 2
MaxSeq == 2
MaxStorages == 2
MaxFaults == 2

(***************************************************************************)
(* Python values.  Optional[X] is a sequence of length 0 (None) or 1.      *)
(* Text is a sequence of one-character strings, so that substring tests,   *)
(* lower(), replace(), split() and int() are computed, not assumed.        *)
(***************************************************************************)
None == <<>>
Some(x) == <<x>>
IsNone(o) == o = <<>>
Val(o) == o[1]

Max(a, b) == IF a >= b THEN a ELSE b
Min(a, b) == IF a <= b THEN a ELSE b

RECURSIVE SumTo(_, _)
\* s[1] + ... + s[k]
SumTo(s, k) == IF k = 0 THEN 0 ELSE SumTo(s, k - 1) + s[k]

DigitChars == <<"0", "1", "2", "3", "4", "5", "6", "7", "8", "9">>

RECURSIVE StrOfNat(_)
\* str(n) for n >= 0
StrOfNat(n) == IF n < 10 THEN <<DigitChars[n + 1]>>
               ELSE StrOfNat(n \div 10) \o <<DigitChars[(n % 10) + 1]>>

(***************************************************************************)
(* The remote catalog.  A book summary record is a JSON object whose keys  *)
(* id, title and tag_list may each be absent (None).  Book g is the g-th   *)
(* book of all shards in order; its id is g.                               *)
(***************************************************************************)
\* stands for the glyph the publisher tag is recognised by
PublisherGlyph == "ban"

TitleOf(g) == <<"T">> \o StrOfNat(g)

IdOf(g) == <<"i", "d">> \o StrOfNat(g)

TagsOf(g) == IF g % 2 = 1
             THEN << [tag_name |-> <<"m", "a", "t", "h">>],
                     [tag_name |-> <<"r", "j", PublisherGlyph>>],
                     [tag_name |-> <<"b", "s", PublisherGlyph>>] >>
             ELSE << [tag_name |-> <<"m", "a", "t", "h">>] >>

WellFormedBook(g) == [id |-> Some(IdOf(g)), title |-> Some(TitleOf(g)), tag_list |-> Some(TagsOf(g))]

\* the book with one key removed
DropKey(b, key) == CASE key = "id" -> [b EXCEPT !.id = None]
                     [] key = "title" -> [b EXCEPT !.title = None]
                     [] key = "tag_list" -> [b EXCEPT !.tag_list = None]
                     [] OTHER -> b

\* bad = <<>> (every record complete) or <<g, key>> (book g lacks key)
BookOf(g, bad) == IF bad # <<>> /\ bad[1] = g THEN DropKey(WellFormedBook(g), bad[2])
                  ELSE WellFormedBook(g)

\* the shard contents for the given list of shard sizes
CatalogOf(sizes, bad) ==
    [k \in 1..Len(sizes) |-> [p \in 1..sizes[k] |-> BookOf(SumTo(sizes, k - 1) + p, bad)]]

RECURSIVE SeqsUpTo(_, _)
\* all sequences over S of length 0..n
SeqsUpTo(S, n) == IF n = 0 THEN {<<>>}
                  ELSE SeqsUpTo(S, n - 1) \cup
                       {Append(s, x) : s \in {q \in SeqsUpTo(S, n - 1) : Len(q) = n - 1}, x \in S}

Sizes(cat) == [k \in 1..Len(cat) |-> Len(cat[k])]
TotalBooks(cat) == SumTo(Sizes(cat), Len(cat))

(***************************************************************************)
(* State.                                                                  *)
(***************************************************************************)
VARIABLES
    catalog,           \* remote: the shards, each the list of its book records
    args,              \* the arguments pdf_download was called with
    mode,              \* the function driving the run
    pc,                \* the statement the program is at
    catalog_urls,      \* Optional: the shard list get_parts returned
    sequence_number,   \* get_book_by_sequence_number: its argument
    catalog_index,     \* get_book_by_sequence_number: loop index (0-based)
    current_sequence,  \* get_book_by_sequence_number: running base
    found,             \* get_book_by_sequence_number: the returned triple
    skipped,           \* history: shards whose fetch failed in this call
    fetched,           \* history: shards fetched successfully in this call, in order
    indexed,           \* history: Optional <<position, length>> of the list access info[position]
    pdf_urls,          \* Optional: what get_pdf_url returned, the argument of the download
    book_name,         \* download_pdf_with_cdn_fallback: the name the file is saved under
    dl_i,              \* download_pdf_with_cdn_fallback: loop index i (0-based)
    pdf_response,      \* Optional: what the last artifact request produced
    success,           \* Optional: what download_pdf_with_cdn_fallback returned
    disk,              \* the files under work_path: file name -> [complete, bytes]
    requested,         \* history: the indices requested in this call, in order
    saved,             \* history: the number of files written completely in this call
    accepted,          \* history: Optional index of the candidate whose payload was saved
    book_id,           \* get_pdf_url: its argument
    data,              \* Optional: the detail document get_pdf_url read last
    start,             \* _download_by_book_range: first sequence number
    end,               \* _download_by_book_range: last sequence number
    seq_num,           \* _download_by_book_range: loop variable
    total_processed,   \* range and legacy run: books downloaded
    failed_books,      \* _download_by_book_range: <<seq_num, name, reason>> entries
    t,                 \* _download_legacy_mode: index of the shard being walked
    item,              \* _download_legacy_mode: start position within the shard
    book_counter,      \* _download_legacy_mode: running item counter
    info,              \* _download_legacy_mode: the shard fetched last
    li,                \* _download_legacy_mode: position of the loop over info[item:]
    name_bound,        \* _download_legacy_mode: whether book_name was ever assigned
    attempted,         \* history: the books the run began to process, in order
    outcomes,          \* history: the outcome reported for each book, in order
    visited,           \* history: the <<shard, position>> the legacy loop body was entered for, in order
    resolved,          \* history: what each sequence number of a range run resolved to, in order
    shard_log,         \* history: the shards the legacy walk requested, in order, and whether it got them
    book_number,       \* save_textbook_info: the Number of the next row
    export_index,      \* save_textbook_info: the shards walked so far (index of enumerate)
    export_info,       \* save_textbook_info: the shard fetched last
    export_pos,        \* save_textbook_info: position of the loop over info
    csv_rows,          \* the rows written to textbook_info.csv
    art_requests,      \* history: artifact requests made for the book being processed
    faults             \* history: requests and file operations that went wrong so far

envVars == <<catalog, args, mode, catalog_urls>>
metaVars == <<book_id, data>>
runVars == <<start, end, seq_num, total_processed, failed_books, t, item, book_counter,
             info, li, name_bound, attempted, outcomes, visited, shard_log, resolved>>
resolverVars == <<sequence_number, catalog_index, current_sequence, found, skipped, fetched, indexed>>
fetchVars == <<book_name, dl_i, pdf_response, success, disk, requested, saved, accepted>>
exportVars == <<book_number, export_index, export_info, export_pos, csv_rows>>
vars == <<envVars, pc, resolverVars, pdf_urls, fetchVars, metaVars, runVars, exportVars,
          art_requests, faults>>

\* a request or file operation goes wrong: within a run of pdf_download at
\* most MaxFaults of them do; a function checked on its own is not limited
Fault == IF mode \in {"resolve", "fetch"} THEN UNCHANGED faults
         ELSE faults < MaxFaults /\ faults' = faults + 1

(***************************************************************************)
(* get_book_by_sequence_number(catalog_urls, sequence_number)              *)
(***************************************************************************)
NotFound == [book_info |-> None, catalog_index |-> None, catalog_position |-> None]

\* the value current_sequence starts from
FirstSequence == 1

\* the two nested conditions under which info[catalog_position] is read
InCatalogInclusive(cur, n, size) == cur <= n /\ n <= cur + size
InCatalog(cur, n, size) == cur <= n /\ n < cur + size /\ n - cur < size

\* current_sequence += catalog_size
NextBaseOffByOne(cur, size) == cur + size + 1
NextBaseForgetful(cur, size) == cur
NextBase(cur, size) == cur + size

\* Python's list index: positions -len..len-1 exist, any other raises IndexError
IndexExists(pos, len) == -len <= pos /\ pos < len
ListItem(list, pos) == IF pos >= 0 THEN list[pos + 1] ELSE list[Len(list) + pos + 1]

ResolverIdle ==
    /\ sequence_number = 0
    /\ catalog_index = 0
    /\ current_sequence = 0
    /\ found = NotFound
    /\ skipped = {}
    /\ fetched = <<>>
    /\ indexed = None

ResolverCalledWarm(n) ==
    /\ sequence_number' = n
    /\ current_sequence' = 0
    /\ found' = NotFound
    /\ skipped' = {}
    /\ fetched' = <<>>
    /\ indexed' = None
    /\ pc' = "resolve_enter"
    /\ UNCHANGED catalog_index

\* the call: a fresh frame for argument n
ResolverCalled(n) ==
    /\ sequence_number' = n
    /\ catalog_index' = 0
    /\ current_sequence' = 0
    /\ found' = NotFound
    /\ skipped' = {}
    /\ fetched' = <<>>
    /\ indexed' = None
    /\ pc' = "resolve_enter"

\* lines 258-263: validate the argument, start counting
Resolve_Validate ==
    /\ pc = "resolve_enter"
    /\ IF sequence_number < 1
       THEN /\ found' = NotFound
            /\ pc' = "resolve_ret"
            /\ UNCHANGED current_sequence
       ELSE /\ current_sequence' = FirstSequence
            /\ pc' = "resolve_loop"
            /\ UNCHANGED found
    /\ UNCHANGED <<sequence_number, catalog_index, skipped, fetched, indexed>>
    /\ UNCHANGED <<envVars, pdf_urls, fetchVars, metaVars, runVars, art_requests, faults>>
    /\ UNCHANGED exportVars

\* one loop iteration whose request or parse raises: except ...: continue
Resolve_FetchFailed ==
    /\ pc = "resolve_loop"
    /\ catalog_index < Len(Val(catalog_urls))
    /\ skipped' = skipped \cup {catalog_index}
    /\ catalog_index' = catalog_index + 1
    /\ Fault
    /\ UNCHANGED <<pc, sequence_number, current_sequence, found, fetched, indexed>>
    /\ UNCHANGED <<envVars, pdf_urls, fetchVars, metaVars, runVars, art_requests>>
    /\ UNCHANGED exportVars

\* one loop iteration whose shard is fetched and parsed
Resolve_FetchOk ==
    /\ pc = "resolve_loop"
    /\ catalog_index < Len(Val(catalog_urls))
    /\ LET shard == catalog[Val(catalog_urls)[catalog_index + 1]]
           catalog_size == Len(shard)
           catalog_position == sequence_number - current_sequence
       IN  /\ fetched' = Append(fetched, catalog_index)
           /\ IF InCatalog(current_sequence, sequence_number, catalog_size)
              THEN /\ indexed' = Some(<<catalog_position, catalog_size>>)
                   /\ IF IndexExists(catalog_position, catalog_size)
                      THEN /\ found' = [book_info |-> Some(ListItem(shard, catalog_position)),
                                        catalog_index |-> Some(catalog_index),
                                        catalog_position |-> Some(catalog_position)]
                           /\ pc' = "resolve_ret"
                           /\ UNCHANGED <<catalog_index, current_sequence>>
                      ELSE \* IndexError: except Exception: continue
                           /\ catalog_index' = catalog_index + 1
                           /\ UNCHANGED <<found, pc, current_sequence>>
              ELSE /\ current_sequence' = NextBase(current_sequence, catalog_size)
                   /\ catalog_index' = catalog_index + 1
                   /\ UNCHANGED <<found, pc, indexed>>
    /\ UNCHANGED <<sequence_number, skipped>>
    /\ UNCHANGED <<envVars, pdf_urls, fetchVars, metaVars, runVars, art_requests, faults>>
    /\ UNCHANGED exportVars

\* lines 299-301: the list is exhausted
Resolve_Exhausted ==
    /\ pc = "resolve_loop"
    /\ catalog_index = Len(Val(catalog_urls))
    /\ found' = NotFound
    /\ pc' = "resolve_ret"
    /\ UNCHANGED <<sequence_number, catalog_index, current_sequence, skipped, fetched, indexed>>
    /\ UNCHANGED <<envVars, pdf_urls, fetchVars, metaVars, runVars, art_requests, faults>>
    /\ UNCHANGED exportVars

ResolveStep == Resolve_Validate \/ Resolve_FetchFailed \/ Resolve_FetchOk \/ Resolve_Exhausted

(***************************************************************************)
(* download_pdf_with_cdn_fallback(pdf_urls, book_name, headers, work_path) *)
(***************************************************************************)
\* the content length a payload must exceed (> 1MB)
MinPdfBytes == 1000000

LowerChar(ch) == CASE ch = "P" -> "p"
                   [] ch = "D" -> "d"
                   [] ch = "F" -> "f"
                   [] ch = "A" -> "a"
                   [] OTHER -> ch

\* str.lower()
Lower(text) == [k \in 1..Len(text) |-> LowerChar(text[k])]

\* sub in text
Contains(text, sub) ==
    \E k \in 0..(Len(text) - Len(sub)) : \A j \in 1..Len(sub) : text[k + j] = sub[j]

\* what one artifact request can produce: an exception of requests.get, or a
\* response with a status, an optional content-type header and a payload
RequestFailures ==
    {[kind |-> k, status_code |-> 0, content_type |-> None, size |-> 0] :
        k \in {"Timeout", "RequestException", "Exception"}}

ContentTypes ==
    { None,
      Some(<<"a", "p", "p", "/", "p", "d", "f">>),
      Some(<<"A", "p", "p", "/", "P", "D", "F">>),
      Some(<<"t", "e", "x", "t", "/", "h", "t", "m", "l">>) }

StatusCodes == {200, 206, 404}

PayloadSizes == {500, MinPdfBytes - 1, MinPdfBytes, MinPdfBytes + 1}

Responses ==
    RequestFailures \cup
    [kind : {"response"}, status_code : StatusCodes, content_type : ContentTypes,
     size : PayloadSizes]

\* the ones a run of pdf_download may be served
RunResponses ==
    { [kind |-> "Timeout", status_code |-> 0, content_type |-> None, size |-> 0],
      [kind |-> "response", status_code |-> 200,
       content_type |-> Some(<<"t", "e", "x", "t", "/", "h", "t", "m", "l">>), size |-> 500],
      [kind |-> "response", status_code |-> 200,
       content_type |-> Some(<<"a", "p", "p", "/", "p", "d", "f">>), size |-> MinPdfBytes],
      [kind |-> "response", status_code |-> 200,
       content_type |-> Some(<<"a", "p", "p", "/", "p", "d", "f">>), size |-> MinPdfBytes + 1] }

\* pdf_response.headers.get('content-type', '')
ContentTypeOf(r) == IF IsNone(r.content_type) THEN <<>> ELSE Val(r.content_type)

\* 'pdf' in content_type.lower()
IsPdfType(content_type) == Contains(Lower(content_type), <<"p", "d", "f">>)

\* lines 193-199: the response is taken for the PDF
AcceptsAtThreshold(r) ==
    /\ r.kind = "response"
    /\ r.status_code = 200
    /\ IsPdfType(ContentTypeOf(r)) /\ r.size >= MinPdfBytes
AcceptsAnyType(r) ==
    /\ r.kind = "response"
    /\ r.status_code = 200
    /\ r.size > MinPdfBytes
Accepts(r) ==
    /\ r.kind = "response"
    /\ r.status_code = 200
    /\ IsPdfType(ContentTypeOf(r)) /\ r.size > MinPdfBytes

\* enumerate(pdf_urls): the index after i
NextCandidateSkipping(i) == i + 2
NextCandidate(i) == i + 1

\* os.path.join(work_path, f"{book_name}.pdf"), relative to work_path
FilePath(name) == name \o <<".pdf">>

\* the directory with file f holding content
WithFile(d, f, content) ==
    [x \in (DOMAIN d) \cup {f} |-> IF x = f THEN content ELSE d[x]]

FetchIdle ==
    /\ book_name = <<>>
    /\ dl_i = 0
    /\ pdf_response = None
    /\ success = None
    /\ disk = <<>>
    /\ requested = <<>>
    /\ saved = 0
    /\ accepted = None

RunIdle ==
    /\ book_id = <<>>
    /\ data = None
    /\ start = 0
    /\ end = 0
    /\ seq_num = 0
    /\ total_processed = 0
    /\ failed_books = <<>>
    /\ t = 0
    /\ item = 0
    /\ book_counter = 0
    /\ info = <<>>
    /\ li = 0
    /\ name_bound = FALSE
    /\ attempted = <<>>
    /\ outcomes = <<>>
    /\ visited = <<>>
    /\ shard_log = <<>>
    /\ resolved = <<>>
    /\ book_number = 0
    /\ export_index = 0
    /\ export_info = <<>>
    /\ export_pos = 0
    /\ csv_rows = <<>>
    /\ art_requests = 0
    /\ faults = 0

\* the call: a fresh frame; the files stay
DownloadCalled(name) ==
    /\ book_name' = name
    /\ dl_i' = 0
    /\ pdf_response' = None
    /\ success' = None
    /\ requested' = <<>>
    /\ saved' = 0
    /\ accepted' = None
    /\ pc' = "dl_enter"
    /\ UNCHANGED disk

\* lines 181-183: no URL at all
Download_Enter ==
    /\ pc = "dl_enter"
    /\ IF Val(pdf_urls) = <<>>
       THEN success' = Some(FALSE) /\ pc' = "dl_ret"
       ELSE success' = None /\ pc' = "dl_loop"
    /\ UNCHANGED <<book_name, dl_i, pdf_response, disk, requested, saved, accepted>>
    /\ UNCHANGED <<envVars, resolverVars, pdf_urls, metaVars, runVars, art_requests, faults>>
    /\ UNCHANGED exportVars

\* lines 186-223 but the save: request candidate i and judge what comes back
Download_Request(R) ==
    /\ pc = "dl_loop"
    /\ dl_i < Len(Val(pdf_urls))
    /\ \E r \in R :
         /\ pdf_response' = Some(r)
         /\ requested' = Append(requested, dl_i)
         /\ IF Accepts(r)
            THEN pc' = "dl_save" /\ UNCHANGED <<dl_i, faults>>
            ELSE pc' = "dl_loop" /\ dl_i' = NextCandidate(dl_i) /\ Fault
    /\ art_requests' = art_requests + 1
    /\ UNCHANGED <<book_name, success, disk, saved, accepted>>
    /\ UNCHANGED <<envVars, resolverVars, pdf_urls, metaVars, runVars>>
    /\ UNCHANGED exportVars

\* the bytes on disk when a write of size bytes fails
PartialSizes(size) == {size \div 2}

\* lines 200-212: open(file_path, 'wb') and write the payload
Download_Save ==
    /\ pc = "dl_save"
    /\ LET size == Val(pdf_response).size
           file == FilePath(book_name)
       IN  \/ \* open raises OSError: nothing touched, continue
              /\ pc' = "dl_loop"
              /\ dl_i' = NextCandidate(dl_i)
              /\ Fault
              /\ UNCHANGED <<disk, success, saved, accepted>>
           \/ \* write raises OSError after the file was truncated: continue
              /\ \E n \in PartialSizes(size) :
                    disk' = WithFile(disk, file, [complete |-> FALSE, bytes |-> n])
              /\ pc' = "dl_loop"
              /\ dl_i' = NextCandidate(dl_i)
              /\ Fault
              /\ UNCHANGED <<success, saved, accepted>>
           \/ \* the process is interrupted during the write
              /\ \E n \in PartialSizes(size) :
                    disk' = WithFile(disk, file, [complete |-> FALSE, bytes |-> n])
              /\ pc' = "interrupted"
              /\ Fault
              /\ UNCHANGED <<dl_i, success, saved, accepted>>
           \/ \* written and closed: return True
              /\ disk' = WithFile(disk, file, [complete |-> TRUE, bytes |-> size])
              /\ saved' = saved + 1
              /\ accepted' = Some(dl_i)
              /\ success' = Some(TRUE)
              /\ pc' = "dl_ret"
              /\ UNCHANGED <<dl_i, faults>>
    /\ UNCHANGED <<book_name, pdf_response, requested>>
    /\ UNCHANGED <<envVars, resolverVars, pdf_urls, metaVars, runVars, art_requests>>
    /\ UNCHANGED exportVars

\* lines 225-227: every candidate failed
Download_Exhausted ==
    /\ pc = "dl_loop"
    /\ dl_i >= Len(Val(pdf_urls))
    /\ success' = Some(FALSE)
    /\ pc' = "dl_ret"
    /\ UNCHANGED <<book_name, dl_i, pdf_response, disk, requested, saved, accepted>>
    /\ UNCHANGED <<envVars, resolverVars, pdf_urls, metaVars, runVars, art_requests, faults>>
    /\ UNCHANGED exportVars

(***************************************************************************)
(* get_book_by_sequence_number called once, on any shard list and any n.   *)
(***************************************************************************)
NoArgs == [table |-> 0, item |-> 0, single_book |-> None, download_limit |-> None,
           sequence_number |-> None, book_range |-> None, book_id |-> None]

ResolveCatalogs ==
    {CatalogOf(s, <<>>) : s \in SeqsUpTo(0..ResolveMaxShardSize, ResolveMaxShards)}

ResolveSeqs == (-1)..(ResolveMaxShards * ResolveMaxShardSize + 2)

InitResolve ==
    /\ catalog \in ResolveCatalogs
    /\ args = NoArgs
    /\ mode = "resolve"
    /\ pc = "resolve_enter"
    /\ catalog_urls = Some([k \in 1..Len(catalog) |-> k])
    /\ sequence_number \in ResolveSeqs
    /\ catalog_index = 0
    /\ current_sequence = 0
    /\ found = NotFound
    /\ skipped = {}
    /\ fetched = <<>>
    /\ indexed = None
    /\ pdf_urls = None
    /\ FetchIdle
    /\ RunIdle

NextResolve == ResolveStep

SpecResolve == InitResolve /\ [][NextResolve]_vars

(***************************************************************************)
(* get_book_by_sequence_number called twice with the same arguments, the   *)
(* requests of the second call answered as those of the first.             *)
(***************************************************************************)
\* the second call, after the caller has noted what the first returned and
\* which requests had failed
Resolve_Again ==
    /\ mode = "resolve" /\ pc = "resolve_ret"
    /\ outcomes = <<>>
    /\ outcomes' = <<[loc |-> sequence_number,
                      result |-> [found |-> found, skipped |-> skipped, fetched |-> fetched]]>>
    /\ ResolverCalled(sequence_number)
    /\ UNCHANGED <<envVars, pdf_urls, fetchVars, metaVars, art_requests, faults>>
    /\ UNCHANGED <<start, end, seq_num, total_processed, failed_books, t, item, book_counter,
                   info, li, name_bound, attempted, visited, shard_log, resolved>>
    /\ UNCHANGED exportVars

\* no shard that failed in the first call is fetched in the second, none
\* that was fetched fails
SameFetchOutcomes ==
    outcomes = <<>> \/
    LET first == outcomes[1].result
    IN  /\ \A k \in 1..Len(first.fetched) : first.fetched[k] \notin skipped
        /\ \A k \in 1..Len(fetched) : fetched[k] \notin first.skipped

ReplayStep == ResolveStep /\ SameFetchOutcomes'

NextResolveTwice == ReplayStep \/ Resolve_Again

SpecResolveTwice == InitResolve /\ [][NextResolveTwice]_vars

(***************************************************************************)
(* get_pdf_url(book_id): the storage URLs of the source item.              *)
(***************************************************************************)
\* the k-th storage URL of a book, as the detail document lists it; a URL is
\* a sequence of chunks, the access class being one chunk
StorageUrl(k) == <<"https://r", DigitChars[k + 1], "-ndr", "-private", ".ykt.cbern.com.cn/b.pdf">>

\* storage_url.replace('-private', '-oversea')
ReplaceNothing(text, old, new) == text
Replace(text, old, new) == [k \in 1..Len(text) |-> IF text[k] = old THEN new ELSE text[k]]
OverseaUrl(storage_url) == Replace(storage_url, "-private", "-oversea")

\* one entry of ti_items: item.get('ti_file_flag') and the key ti_storages,
\* which may be absent
Item(flag, storages) == [ti_file_flag |-> flag, ti_storages |-> storages]

StorageLists(n) == {[k \in 1..m |-> StorageUrl(k)] : m \in 1..n}

\* 'ti_storages' in item and item['ti_storages']
HasStorages(it) == ~IsNone(it.ti_storages) /\ Val(it.ti_storages) # <<>>

RECURSIVE SourceUrlsAnyFlag(_)
SourceUrlsAnyFlag(items) ==
    IF items = <<>> THEN None
    ELSE IF HasStorages(Head(items))
         THEN Some([k \in 1..Len(Val(Head(items).ti_storages)) |->
                       OverseaUrl(Val(Head(items).ti_storages)[k])])
         ELSE SourceUrlsAnyFlag(Tail(items))

RECURSIVE SourceUrls(_)
\* lines 122-134: the URLs of the first item flagged 'source' that has
\* storages, each made an oversea URL; None when there is no such item
SourceUrls(items) ==
    IF items = <<>> THEN None
    ELSE IF Head(items).ti_file_flag = "source" /\ HasStorages(Head(items))
         THEN Some([k \in 1..Len(Val(Head(items).ti_storages)) |->
                       OverseaUrl(Val(Head(items).ti_storages)[k])])
         ELSE SourceUrls(Tail(items))

\* the detail documents (their ti_items) a run of pdf_download may be served
SourceDocs(n) ==
    {<<Item("source", Some(u))>> : u \in StorageLists(n)}
    \cup {<<Item("preview", Some(<<StorageUrl(1)>>)), Item("source", Some(u))>> : u \in StorageLists(n)}
    \cup {<<Item("source", Some(<<>>)), Item("source", Some(<<StorageUrl(1)>>))>>}

SourcelessDocs ==
    { <<>>,
      <<Item("preview", Some(<<StorageUrl(1)>>))>>,
      <<Item("Source", Some(<<StorageUrl(1)>>))>>,
      <<Item("source", None)>>,
      <<Item("source", Some(<<>>)), Item("preview", Some(<<StorageUrl(1)>>))>> }

DetailDocs == SourceDocs(MaxStorages) \cup SourcelessDocs

\* if pdf_urls:
Truthy(urls) == ~IsNone(urls) /\ Val(urls) # <<>>

\* the call
GetPdfUrlCalled(id) ==
    /\ book_id' = id
    /\ data' = None
    /\ pdf_urls' = None
    /\ pc' = "meta_call"

\* lines 110-150: fetch the detail document and scan it; every exception
\* ends in return None
GetPdfUrl ==
    /\ pc = "meta_call"
    /\ \/ \* the request, the JSON or the key ti_items fails
          /\ data' = None
          /\ pdf_urls' = None
          /\ Fault
       \/ \E d \in DetailDocs :
             /\ data' = Some(d)
             /\ pdf_urls' = SourceUrls(d)
             /\ IF IsNone(SourceUrls(d)) THEN Fault ELSE UNCHANGED faults
    /\ pc' = "meta_ret"
    /\ UNCHANGED <<envVars, resolverVars, fetchVars, book_id, runVars, art_requests>>
    /\ UNCHANGED exportVars

(***************************************************************************)
(* The derived file name, and what the drivers share.                      *)
(***************************************************************************)
\* '版' in tag['tag_name']
HasPublisherGlyph(tag) == Contains(tag.tag_name, <<PublisherGlyph>>)

RECURSIVE Publisher(_)
\* next((tag['tag_name'] for tag in tag_list if '版' in tag['tag_name']), '')
Publisher(tag_list) ==
    IF tag_list = <<>> THEN <<>>
    ELSE IF HasPublisherGlyph(Head(tag_list)) THEN Head(tag_list).tag_name
         ELSE Publisher(Tail(tag_list))

\* f"{publisher}{book['title']}"; raises KeyError without tag_list or title
NameRaises(book) == IsNone(book.tag_list) \/ IsNone(book.title)
DisplayName(book) == Publisher(Val(book.tag_list)) \o Val(book.title)

\* book_info.get('title', 'Unknown')
TitleOrUnknown(book) == IF IsNone(book.title) THEN <<"Unknown">> ELSE Val(book.title)

\* get_parts(): data['urls'].split(',') names every shard of the remote catalog
ShardUrls == [k \in 1..Len(catalog) |-> k]

\* requests.get(ref) of a shard and json.loads
ShardAt(urls, k) == catalog[urls[k + 1]]

\* the frames of the calls made for a book are left behind
FramesDropped ==
    /\ sequence_number' = 0
    /\ catalog_index' = 0
    /\ current_sequence' = 0
    /\ found' = NotFound
    /\ skipped' = {}
    /\ fetched' = <<>>
    /\ indexed' = None
    /\ book_id' = <<>>
    /\ data' = None
    /\ pdf_urls' = None
    /\ book_name' = <<>>
    /\ dl_i' = 0
    /\ pdf_response' = None
    /\ success' = None
    /\ requested' = <<>>
    /\ saved' = 0
    /\ accepted' = None

resolverFrame == <<sequence_number, catalog_index, current_sequence, found, skipped, fetched, indexed>>
downloadFrame == <<book_name, dl_i, pdf_response, success, requested, saved, accepted>>

\* except Exception: print and return, where next is the statement after the
\* try statement
OnCatalogFailureGoesOn(next) == next
OnCatalogFailure(next) == "done"

Reported(loc, result) == outcomes' = Append(outcomes, [loc |-> loc, result |-> result])

(***************************************************************************)
(* pdf_download: the choice of the mode.                                   *)
(***************************************************************************)
\* truth value of an optional int, and of an optional string
TruthyInt(o) == ~IsNone(o) /\ Val(o) # 0
TruthyText(o) == ~IsNone(o) /\ Val(o) # <<>>

ModeOfSequenceFirst(a) ==
    IF TruthyInt(a.sequence_number) THEN "sequence"
    ELSE IF TruthyText(a.book_id) THEN "id"
    ELSE IF TruthyText(a.book_range) THEN "range"
    ELSE IF TruthyInt(a.single_book) \/ TruthyInt(a.download_limit)
            \/ a.table > 0 \/ a.item > 0 THEN "legacy"
    ELSE "none"

\* lines 361-383
ModeOf(a) ==
    IF TruthyText(a.book_id) THEN "id"
    ELSE IF TruthyInt(a.sequence_number) THEN "sequence"
    ELSE IF TruthyText(a.book_range) THEN "range"
    ELSE IF TruthyInt(a.single_book) \/ TruthyInt(a.download_limit)
            \/ a.table > 0 \/ a.item > 0 THEN "legacy"
    ELSE "none"

\* lines 341-383
PdfDownload ==
    /\ pc = "main"
    /\ \/ \* os.makedirs raises OSError: return
          /\ pc' = "done"
          /\ UNCHANGED mode
       \/ /\ mode' = ModeOf(args)
          /\ pc' = IF ModeOf(args) = "none" THEN "done" ELSE "start"
    /\ UNCHANGED <<catalog, args, catalog_urls, resolverVars, pdf_urls, fetchVars, metaVars,
                   runVars, art_requests, faults>>
    /\ UNCHANGED exportVars

(***************************************************************************)
(* _download_by_book_id(book_id, headers, work_path)                       *)
(***************************************************************************)
\* lines 397-401
ById_Start ==
    /\ mode = "id" /\ pc = "start"
    /\ attempted' = Append(attempted, Val(args.book_id))
    /\ GetPdfUrlCalled(Val(args.book_id))
    /\ UNCHANGED <<envVars, resolverVars, fetchVars, art_requests, faults>>
    /\ UNCHANGED <<start, end, seq_num, total_processed, failed_books, t, item, book_counter,
                   info, li, name_bound, outcomes>>
    /\ UNCHANGED <<visited, shard_log, resolved>>
    /\ UNCHANGED exportVars

\* lines 402-422: the second request for the title, then the download
ById_AfterMeta ==
    /\ mode = "id" /\ pc = "meta_ret"
    /\ IF Truthy(pdf_urls)
       THEN \/ \* the request or response.json() raises: except Exception
               /\ Fault
               /\ Reported(book_id, "Error")
               /\ pc' = "done"
               /\ UNCHANGED fetchVars
            \/ \* response.ok and the document has a title
               /\ DownloadCalled(TitleOf(1))
               /\ UNCHANGED <<outcomes, faults>>
            \/ \* not response.ok, or no title in the document
               /\ DownloadCalled(<<"Book_">> \o book_id)
               /\ UNCHANGED <<outcomes, faults>>
       ELSE /\ Reported(book_id, "No PDF URLs")
            /\ pc' = "done"
            /\ UNCHANGED <<fetchVars, faults>>
    /\ UNCHANGED <<envVars, resolverVars, pdf_urls, metaVars, art_requests>>
    /\ UNCHANGED <<start, end, seq_num, total_processed, failed_books, t, item, book_counter,
                   info, li, name_bound, attempted>>
    /\ UNCHANGED <<visited, shard_log, resolved>>
    /\ UNCHANGED exportVars

\* lines 414-418
ById_AfterDownload ==
    /\ mode = "id" /\ pc = "dl_ret"
    /\ Reported(book_id, IF Val(success) THEN "ok" ELSE "Download failed")
    /\ pc' = "done"
    /\ UNCHANGED <<envVars, resolverVars, pdf_urls, fetchVars, metaVars, art_requests, faults>>
    /\ UNCHANGED <<start, end, seq_num, total_processed, failed_books, t, item, book_counter,
                   info, li, name_bound, attempted>>
    /\ UNCHANGED <<visited, shard_log, resolved>>
    /\ UNCHANGED exportVars

(***************************************************************************)
(* _download_by_sequence_number(sequence_number, headers, work_path)       *)
(***************************************************************************)
\* lines 434-445
BySeq_Start ==
    /\ mode = "sequence" /\ pc = "start"
    /\ \/ \* get_parts raises
          /\ pc' = OnCatalogFailure("resolve_enter")
          /\ UNCHANGED <<catalog_urls, resolverVars, attempted>>
       \/ /\ catalog_urls' = Some(ShardUrls)
          /\ attempted' = Append(attempted, Val(args.sequence_number))
          /\ ResolverCalled(Val(args.sequence_number))
    /\ UNCHANGED <<catalog, args, mode, pdf_urls, fetchVars, metaVars, art_requests, faults>>
    /\ UNCHANGED <<start, end, seq_num, total_processed, failed_books, t, item, book_counter,
                   info, li, name_bound, outcomes>>
    /\ UNCHANGED <<visited, shard_log, resolved>>
    /\ UNCHANGED exportVars

\* lines 446-452 and 466-467
BySeq_AfterResolve ==
    /\ mode = "sequence" /\ pc = "resolve_ret"
    /\ IF IsNone(found.book_info)
       THEN /\ Reported(sequence_number, "Not found")
            /\ pc' = "done"
            /\ UNCHANGED <<metaVars, pdf_urls>>
       ELSE IF IsNone(Val(found.book_info).id)
       THEN \* book_info['id'] raises KeyError, which nothing catches
            /\ pc' = "crashed"
            /\ UNCHANGED <<metaVars, pdf_urls, outcomes>>
       ELSE /\ GetPdfUrlCalled(Val(Val(found.book_info).id))
            /\ UNCHANGED outcomes
    /\ UNCHANGED <<envVars, resolverVars, fetchVars, art_requests, faults>>
    /\ UNCHANGED <<start, end, seq_num, total_processed, failed_books, t, item, book_counter,
                   info, li, name_bound, attempted>>
    /\ UNCHANGED <<visited, shard_log, resolved>>
    /\ UNCHANGED exportVars

\* lines 454-459 and 464-465
BySeq_AfterMeta ==
    /\ mode = "sequence" /\ pc = "meta_ret"
    /\ IF ~Truthy(pdf_urls)
       THEN /\ Reported(sequence_number, "No PDF URLs")
            /\ pc' = "done"
            /\ UNCHANGED fetchVars
       ELSE IF NameRaises(Val(found.book_info))
       THEN /\ pc' = "crashed"
            /\ UNCHANGED <<fetchVars, outcomes>>
       ELSE /\ DownloadCalled(DisplayName(Val(found.book_info)))
            /\ UNCHANGED outcomes
    /\ UNCHANGED <<envVars, resolverVars, pdf_urls, metaVars, art_requests, faults>>
    /\ UNCHANGED <<start, end, seq_num, total_processed, failed_books, t, item, book_counter,
                   info, li, name_bound, attempted>>
    /\ UNCHANGED <<visited, shard_log, resolved>>
    /\ UNCHANGED exportVars

\* lines 459-463
BySeq_AfterDownload ==
    /\ mode = "sequence" /\ pc = "dl_ret"
    /\ Reported(sequence_number, IF Val(success) THEN "ok" ELSE "Download failed")
    /\ pc' = "done"
    /\ UNCHANGED <<envVars, resolverVars, pdf_urls, fetchVars, metaVars, art_requests, faults>>
    /\ UNCHANGED <<start, end, seq_num, total_processed, failed_books, t, item, book_counter,
                   info, li, name_bound, attempted>>
    /\ UNCHANGED <<visited, shard_log, resolved>>
    /\ UNCHANGED exportVars

(***************************************************************************)
(* _download_by_book_range(book_range, headers, work_path)                 *)
(***************************************************************************)
DigitValue(ch) == CHOOSE d \in 0..9 : DigitChars[d + 1] = ch
IsDigit(ch) == \E d \in 0..9 : DigitChars[d + 1] = ch

RECURSIVE NatOfDigits(_)
NatOfDigits(text) ==
    IF text = <<>> THEN 0
    ELSE 10 * NatOfDigits(SubSeq(text, 1, Len(text) - 1)) + DigitValue(text[Len(text)])

\* int(text): None stands for ValueError
IntOf(text) == IF text # <<>> /\ \A k \in 1..Len(text) : IsDigit(text[k])
               THEN Some(NatOfDigits(text)) ELSE None

RECURSIVE Split(_, _)
\* text.split(sep)
Split(text, sep) ==
    IF \A k \in 1..Len(text) : text[k] # sep THEN <<text>>
    ELSE LET k == CHOOSE i \in 1..Len(text) :
                      text[i] = sep /\ \A j \in 1..(i - 1) : text[j] # sep
         IN  <<SubSeq(text, 1, k - 1)>> \o Split(SubSeq(text, k + 1, Len(text)), sep)

\* lines 485-486: if start > end: start, end = end, start
NormalizeNoSwap(a, b) == <<a, b>>
Normalize(a, b) == IF a > b THEN <<b, a>> ELSE <<a, b>>

\* lines 483-488: <<start, end>>, or None for the ValueError of a wrong
\* number of parts or of int()
ParseRange(text) ==
    IF Contains(text, <<"-">>)
    THEN LET parts == Split(text, "-")
         IN  IF Len(parts) # 2 \/ IsNone(IntOf(parts[1])) \/ IsNone(IntOf(parts[2]))
             THEN None
             ELSE Some(Normalize(Val(IntOf(parts[1])), Val(IntOf(parts[2]))))
    ELSE IF IsNone(IntOf(text)) THEN None
         ELSE Some(<<Val(IntOf(text)), Val(IntOf(text))>>)

\* failed_books.append(entry)
FailedDropped(entry) == UNCHANGED failed_books
FailedAppended(entry) == failed_books' = Append(failed_books, entry)

\* lines 531-532 and 504: on to the next sequence number
RangeAdvance ==
    /\ seq_num' = seq_num + 1
    /\ pc' = "range_loop"
    /\ art_requests' = 0
    /\ FramesDropped

\* lines 479-501
Range_Start ==
    /\ mode = "range" /\ pc = "start"
    /\ LET parsed == ParseRange(Val(args.book_range))
       IN  IF IsNone(parsed)
           THEN \* except ValueError
                /\ pc' = "done"
                /\ UNCHANGED <<catalog_urls, start, end, seq_num>>
           ELSE /\ start' = Val(parsed)[1]
                /\ end' = Val(parsed)[2]
                /\ \/ \* get_parts raises
                      /\ pc' = OnCatalogFailure("range_loop")
                      /\ UNCHANGED <<catalog_urls, seq_num>>
                   \/ /\ catalog_urls' = Some(ShardUrls)
                      /\ seq_num' = Val(parsed)[1]
                      /\ pc' = "range_loop"
    /\ UNCHANGED <<catalog, args, mode, resolverVars, pdf_urls, fetchVars, metaVars,
                   art_requests, faults>>
    /\ UNCHANGED <<total_processed, failed_books, t, item, book_counter, info, li,
                   name_bound, attempted, outcomes>>
    /\ UNCHANGED <<visited, shard_log, resolved>>
    /\ UNCHANGED exportVars

\* lines 504-507 and 534-540: the loop head, and the report after the loop
Range_Next ==
    /\ mode = "range" /\ pc = "range_loop"
    /\ IF seq_num <= end
       THEN /\ attempted' = Append(attempted, seq_num)
            /\ ResolverCalled(seq_num)
       ELSE /\ pc' = "done"
            /\ UNCHANGED <<resolverVars, attempted>>
    /\ UNCHANGED <<envVars, pdf_urls, fetchVars, metaVars, art_requests, faults>>
    /\ UNCHANGED <<start, end, seq_num, total_processed, failed_books, t, item, book_counter,
                   info, li, name_bound, outcomes>>
    /\ UNCHANGED <<visited, shard_log, resolved>>
    /\ UNCHANGED exportVars

\* lines 508-512 and 527-529
Range_AfterResolve ==
    /\ mode = "range" /\ pc = "resolve_ret"
    /\ IF IsNone(found.book_info)
       THEN /\ FailedAppended(<<seq_num, <<"Unknown">>, "Not found">>)
            /\ Reported(seq_num, "Not found")
            /\ RangeAdvance
            /\ UNCHANGED resolved
       ELSE IF IsNone(Val(found.book_info).id)
       THEN \* book_info['id'] raises KeyError; only ValueError is caught
            /\ pc' = "crashed"
            /\ UNCHANGED resolved
            /\ UNCHANGED <<resolverFrame, downloadFrame, metaVars, pdf_urls, failed_books,
                           outcomes, seq_num, art_requests>>
       ELSE /\ GetPdfUrlCalled(Val(Val(found.book_info).id))
            /\ resolved' = Append(resolved, [n |-> seq_num, shard |-> Val(found.catalog_index),
                                             position |-> Val(found.catalog_position)])
            /\ UNCHANGED <<resolverFrame, downloadFrame, failed_books, outcomes, seq_num,
                           art_requests>>
    /\ UNCHANGED <<envVars, disk, faults>>
    /\ UNCHANGED <<start, end, total_processed, t, item, book_counter, info, li, name_bound,
                   attempted>>
    /\ UNCHANGED <<visited, shard_log>>
    /\ UNCHANGED exportVars

\* lines 514-518 and 524-526
Range_AfterMeta ==
    /\ mode = "range" /\ pc = "meta_ret"
    /\ IF ~Truthy(pdf_urls)
       THEN /\ FailedAppended(<<seq_num, TitleOrUnknown(Val(found.book_info)), "No PDF URLs">>)
            /\ Reported(seq_num, "No PDF URLs")
            /\ RangeAdvance
            /\ UNCHANGED disk
       ELSE IF NameRaises(Val(found.book_info))
       THEN /\ pc' = "crashed"
            /\ UNCHANGED <<resolverFrame, fetchVars, metaVars, pdf_urls, failed_books,
                           outcomes, seq_num, art_requests>>
       ELSE /\ DownloadCalled(DisplayName(Val(found.book_info)))
            /\ UNCHANGED <<resolverFrame, metaVars, pdf_urls, failed_books, outcomes, seq_num,
                           art_requests>>
    /\ UNCHANGED <<envVars, faults>>
    /\ UNCHANGED <<start, end, total_processed, t, item, book_counter, info, li, name_bound,
                   attempted>>
    /\ UNCHANGED <<visited, shard_log, resolved>>
    /\ UNCHANGED exportVars

\* lines 518-523
Range_AfterDownload ==
    /\ mode = "range" /\ pc = "dl_ret"
    /\ IF Val(success)
       THEN /\ total_processed' = total_processed + 1
            /\ Reported(seq_num, "ok")
            /\ UNCHANGED failed_books
       ELSE /\ FailedAppended(<<seq_num, book_name, "Download failed">>)
            /\ Reported(seq_num, "Download failed")
            /\ UNCHANGED total_processed
    /\ RangeAdvance
    /\ UNCHANGED <<envVars, disk, faults>>
    /\ UNCHANGED <<start, end, t, item, book_counter, info, li, name_bound, attempted>>
    /\ UNCHANGED <<visited, shard_log, resolved>>
    /\ UNCHANGED exportVars

(***************************************************************************)
(* _download_legacy_mode(table, item, single_book, download_limit, ...)    *)
(***************************************************************************)
\* lines 620-624: return after the single book, or on to the next item
LegacyAdvance ==
    /\ IF ~IsNone(args.single_book) /\ book_counter = Val(args.single_book)
       THEN pc' = "done" /\ UNCHANGED li
       ELSE pc' = "legacy_item" /\ li' = li + 1
    /\ art_requests' = 0
    /\ FramesDropped

\* line 634: item = 0
ItemKept(it) == it
ItemReset(it) == 0

\* lines 562-572
Legacy_Start ==
    /\ mode = "legacy" /\ pc = "start"
    /\ \/ \* get_parts raises
          /\ pc' = OnCatalogFailure("legacy_shard")
          /\ UNCHANGED <<catalog_urls, t, item, book_counter>>
       \/ /\ catalog_urls' = Some(ShardUrls)
          /\ t' = args.table
          /\ item' = args.item
          /\ book_counter' = args.item
          /\ pc' = "legacy_shard"
    /\ UNCHANGED <<catalog, args, mode, resolverVars, pdf_urls, fetchVars, metaVars,
                   art_requests, faults>>
    /\ UNCHANGED <<start, end, seq_num, total_processed, failed_books, info, li, name_bound,
                   attempted, outcomes>>
    /\ UNCHANGED <<visited, shard_log, resolved>>
    /\ UNCHANGED exportVars

\* lines 575-583 and 626-636: the next shard of url[table:], or the end
Legacy_Shard ==
    /\ mode = "legacy" /\ pc = "legacy_shard"
    /\ IF t < Len(Val(catalog_urls))
       THEN \/ \* the request or the JSON fails: except, t += 1, item = 0
               /\ Fault
               /\ t' = t + 1
               /\ item' = ItemReset(item)
               /\ shard_log' = Append(shard_log, [shard |-> t, ok |-> FALSE])
               /\ UNCHANGED <<pc, info, li>>
            \/ /\ info' = ShardAt(Val(catalog_urls), t)
               /\ li' = item
               /\ pc' = "legacy_item"
               /\ shard_log' = Append(shard_log, [shard |-> t, ok |-> TRUE])
               /\ UNCHANGED <<t, item, faults>>
       ELSE /\ pc' = "done"
            /\ UNCHANGED <<t, item, info, li, faults, shard_log>>
    /\ UNCHANGED <<visited, resolved>>
    /\ UNCHANGED <<envVars, resolverVars, pdf_urls, fetchVars, metaVars, art_requests>>
    /\ UNCHANGED <<start, end, seq_num, total_processed, failed_books, book_counter,
                   name_bound, attempted, outcomes>>
    /\ UNCHANGED exportVars

\* line 585: book_counter += 1
NextCounterSkipping(c) == c + 2
NextCounter(c) == c + 1

\* line 593: download_limit is not None and total_processed >= download_limit
LimitReachedLate(limit, n) == ~IsNone(limit) /\ n > Val(limit)
LimitReached(limit, n) == ~IsNone(limit) /\ n >= Val(limit)

\* lines 584-605 and 617-618: the next item of info[item:]
Legacy_Item ==
    /\ mode = "legacy" /\ pc = "legacy_item"
    /\ IF li >= Len(info)
       THEN \* the shard is done: t += 1, item = 0
            /\ t' = t + 1
            /\ item' = ItemReset(item)
            /\ pc' = "legacy_shard"
            /\ UNCHANGED <<book_counter, li, name_bound, attempted, outcomes, metaVars, pdf_urls,
                           visited>>
       ELSE /\ book_counter' = NextCounter(book_counter)
            /\ visited' = Append(visited, <<t, li>>)
            /\ IF ~IsNone(args.single_book) /\ NextCounter(book_counter) # Val(args.single_book)
               THEN \* not the requested single book
                    /\ li' = li + 1
                    /\ UNCHANGED <<t, item, pc, name_bound, attempted, outcomes, metaVars, pdf_urls>>
               ELSE IF LimitReached(args.download_limit, total_processed)
               THEN \* the download limit is reached: return
                    /\ pc' = "done"
                    /\ UNCHANGED <<t, item, li, name_bound, attempted, outcomes, metaVars, pdf_urls>>
               ELSE LET book == info[li + 1]
                    IN  /\ attempted' = Append(attempted, <<t, li>>)
                        /\ IF IsNone(book.id) \/ NameRaises(book)
                           THEN \* KeyError before book_name is assigned
                                IF name_bound
                                THEN \* the handler prints the name of an earlier book
                                     /\ Reported(<<t, li>>, "Error")
                                     /\ IF ~IsNone(args.single_book)
                                        THEN pc' = "done" /\ UNCHANGED li
                                        ELSE pc' = "legacy_item" /\ li' = li + 1
                                     /\ UNCHANGED <<t, item, name_bound, metaVars, pdf_urls>>
                                ELSE \* the handler raises NameError: the outer except
                                     \* ends the shard
                                     /\ t' = t + 1
                                     /\ item' = ItemReset(item)
                                     /\ pc' = "legacy_shard"
                                     /\ UNCHANGED <<li, name_bound, outcomes, metaVars, pdf_urls>>
                           ELSE /\ name_bound' = TRUE
                                /\ GetPdfUrlCalled(Val(book.id))
                                /\ UNCHANGED <<t, item, li, outcomes>>
    /\ UNCHANGED <<envVars, resolverVars, fetchVars, art_requests, faults>>
    /\ UNCHANGED <<start, end, seq_num, total_processed, failed_books, info, shard_log, resolved>>
    /\ UNCHANGED exportVars

\* lines 607-608 and 614-615
Legacy_AfterMeta ==
    /\ mode = "legacy" /\ pc = "meta_ret"
    /\ IF Truthy(pdf_urls)
       THEN /\ DownloadCalled(DisplayName(info[li + 1]))
            /\ UNCHANGED <<resolverFrame, metaVars, pdf_urls, outcomes, li, art_requests>>
       ELSE /\ Reported(<<t, li>>, "No PDF URLs")
            /\ LegacyAdvance
            /\ UNCHANGED disk
    /\ UNCHANGED <<envVars, faults>>
    /\ UNCHANGED <<start, end, seq_num, total_processed, failed_books, t, item, book_counter,
                   info, name_bound, attempted>>
    /\ UNCHANGED <<visited, shard_log, resolved>>
    /\ UNCHANGED exportVars

\* lines 608-613
Legacy_AfterDownload ==
    /\ mode = "legacy" /\ pc = "dl_ret"
    /\ IF Val(success)
       THEN /\ total_processed' = total_processed + 1
            /\ Reported(<<t, li>>, "ok")
       ELSE /\ Reported(<<t, li>>, "Download failed")
            /\ UNCHANGED total_processed
    /\ LegacyAdvance
    /\ UNCHANGED <<envVars, disk, faults>>
    /\ UNCHANGED <<start, end, seq_num, failed_books, t, item, book_counter, info, name_bound,
                   attempted>>
    /\ UNCHANGED <<visited, shard_log, resolved>>
    /\ UNCHANGED exportVars

(***************************************************************************)
(* pdf_download called once, with any arguments, against any catalog.      *)
(***************************************************************************)
BookKeys == {"id", "title", "tag_list"}

\* every record complete, or one book lacking one key
RunCatalogs ==
    {CatalogOf(sz, bad) :
        sz \in {q \in SeqsUpTo(0..MaxShardSize, MaxShards) : q # <<>>},
        bad \in {<<>>} \cup {<<g, key>> : g \in 1..(MaxShards * MaxShardSize), key \in BookKeys}}

\* f"{a}-{b}"
RangeText(a, b) == StrOfNat(a) \o <<"-">> \o StrOfNat(b)

RangeTexts ==
    {RangeText(a, b) : a \in 0..MaxSeq, b \in 0..MaxSeq}
    \cup {StrOfNat(a) : a \in 0..MaxSeq}
    \cup {<<"-", "1">>, <<"1", "-">>, <<"1", "-", "2", "-", "3">>, <<"x">>}

OptCounts == {None} \cup {Some(n) : n \in 0..MaxSeq}

\* several locators at once
ManyLocators ==
    { [NoArgs EXCEPT !.book_id = Some(IdOf(1)), !.sequence_number = Some(1),
                     !.book_range = Some(RangeText(1, 1)), !.table = 1],
      [NoArgs EXCEPT !.sequence_number = Some(1), !.book_range = Some(RangeText(1, 1)),
                     !.single_book = Some(1)],
      [NoArgs EXCEPT !.sequence_number = Some(0), !.book_range = Some(RangeText(1, 1)),
                     !.download_limit = Some(1)],
      [NoArgs EXCEPT !.book_id = Some(<<>>), !.item = 1] }

RunArgs ==
    {[NoArgs EXCEPT !.book_id = Some(IdOf(1))]}
    \cup {[NoArgs EXCEPT !.sequence_number = Some(n)] : n \in (-1)..(MaxSeq + 1)}
    \cup {[NoArgs EXCEPT !.book_range = Some(r)] : r \in RangeTexts}
    \cup {[NoArgs EXCEPT !.table = tb, !.item = it, !.single_book = sb] :
             tb \in 0..MaxShards, it \in 0..MaxShardSize, sb \in OptCounts}
    \cup {[NoArgs EXCEPT !.table = tb, !.item = it, !.download_limit = dl] :
             tb \in 0..MaxShards, it \in 0..MaxShardSize, dl \in OptCounts}
    \cup {[NoArgs EXCEPT !.single_book = Some(1), !.download_limit = Some(1)]}
    \cup ManyLocators

Init ==
    /\ catalog \in RunCatalogs
    /\ args \in RunArgs
    /\ mode = "main"
    /\ pc = "main"
    /\ catalog_urls = None
    /\ ResolverIdle
    /\ pdf_urls = None
    /\ FetchIdle
    /\ RunIdle

Next ==
    \/ PdfDownload
    \/ ById_Start \/ ById_AfterMeta \/ ById_AfterDownload
    \/ BySeq_Start \/ BySeq_AfterResolve \/ BySeq_AfterMeta \/ BySeq_AfterDownload
    \/ Range_Start \/ Range_Next \/ Range_AfterResolve \/ Range_AfterMeta \/ Range_AfterDownload
    \/ Legacy_Start \/ Legacy_Shard \/ Legacy_Item \/ Legacy_AfterMeta \/ Legacy_AfterDownload
    \/ Resolve_Validate \/ Resolve_FetchFailed \/ Resolve_FetchOk \/ Resolve_Exhausted
    \/ GetPdfUrl
    \/ Download_Enter \/ Download_Request(RunResponses) \/ Download_Save \/ Download_Exhausted

Spec == Init /\ [][Next]_vars

(***************************************************************************)
(* textbook_info.py: save_textbook_info(), and a look-up of one of its     *)
(* rows by get_book_by_sequence_number.                                    *)
(***************************************************************************)
\* writer.writerow(['Number', 'Book ID', 'Book Name'])
HeaderRow == <<<<"Number">>, <<"Book ID">>, <<"Book Name">>>>

\* lines 57-66 of textbook_info.py: the record raises KeyError
RowRaises(book) == IsNone(book.id) \/ IsNone(book.tag_list) \/ IsNone(book.title)

\* writer.writerow([book_number, book_id, book_name]): the number as text
RowOf(number, book) ==
    <<StrOfNat(number), Val(book.id), Publisher(Val(book.tag_list)) \o Val(book.title)>>

exportOthers == <<catalog, args, mode, resolverVars, pdf_urls, fetchVars, metaVars, runVars,
                  art_requests, faults>>

\* lines 28-48: get_parts(), open the file, write the header
Export_Start ==
    /\ mode = "export" /\ pc = "export_start"
    /\ \/ \* get_parts raises: nothing catches it
          /\ pc' = "crashed"
          /\ UNCHANGED <<catalog_urls, exportVars>>
       \/ /\ catalog_urls' = Some([k \in 1..Len(catalog) |-> k])
          /\ book_number' = 1
          /\ csv_rows' = <<HeaderRow>>
          /\ export_index' = 0
          /\ pc' = "export_shard"
          /\ UNCHANGED <<export_info, export_pos>>
    /\ UNCHANGED exportOthers

\* lines 50-54: the next shard, or the end of the walk
Export_Shard ==
    /\ mode = "export" /\ pc = "export_shard"
    /\ IF export_index < Len(Val(catalog_urls))
       THEN \/ \* the request or json.loads raises: nothing catches it
               /\ pc' = "crashed"
               /\ UNCHANGED <<export_index, export_info, export_pos>>
            \/ /\ export_info' = catalog[Val(catalog_urls)[export_index + 1]]
               /\ export_index' = export_index + 1
               /\ export_pos' = 0
               /\ pc' = "export_book"
       ELSE /\ pc' = "done"
            /\ UNCHANGED <<export_index, export_info, export_pos>>
    /\ UNCHANGED <<catalog_urls, book_number, csv_rows>>
    /\ UNCHANGED exportOthers

\* lines 56-66: one record of the shard
Export_Book ==
    /\ mode = "export" /\ pc = "export_book"
    /\ IF export_pos >= Len(export_info)
       THEN /\ pc' = "export_shard"
            /\ UNCHANGED <<export_pos, book_number, csv_rows>>
       ELSE LET book == export_info[export_pos + 1]
            IN  /\ IF RowRaises(book)
                   THEN \* except Exception: print, no row and no number
                        UNCHANGED <<book_number, csv_rows>>
                   ELSE /\ csv_rows' = Append(csv_rows, RowOf(book_number, book))
                        /\ book_number' = book_number + 1
                /\ export_pos' = export_pos + 1
                /\ UNCHANGED pc
    /\ UNCHANGED <<catalog_urls, export_index, export_info>>
    /\ UNCHANGED exportOthers

\* the rows of the books, without the header
DataRows == {csv_rows[k] : k \in 2..Len(csv_rows)}

\* get_book_by_sequence_number is called with the Number of one of the rows
Export_Lookup ==
    /\ mode = "export" /\ pc = "done"
    /\ sequence_number = 0
    /\ \E row \in DataRows : ResolverCalled(NatOfDigits(row[1]))
    /\ UNCHANGED <<envVars, pdf_urls, fetchVars, metaVars, runVars, exportVars, art_requests,
                   faults>>

InitExport ==
    /\ catalog \in RunCatalogs
    /\ args = NoArgs
    /\ mode = "export"
    /\ pc = "export_start"
    /\ catalog_urls = None
    /\ ResolverIdle
    /\ pdf_urls = None
    /\ FetchIdle
    /\ RunIdle

NextExport == Export_Start \/ Export_Shard \/ Export_Book \/ Export_Lookup \/ ResolveStep

SpecExport == InitExport /\ [][NextExport]_vars

(***************************************************************************)
(* download_pdf_with_cdn_fallback called once, on any list of URLs.        *)
(***************************************************************************)
DownloadStep(R) == Download_Enter \/ Download_Request(R) \/ Download_Save \/ Download_Exhausted

InitFetch ==
    /\ catalog = <<>>
    /\ args = NoArgs
    /\ mode = "fetch"
    /\ pc = "dl_enter"
    /\ catalog_urls = None
    /\ ResolverIdle
    /\ pdf_urls \in {Some([k \in 1..n |-> OverseaUrl(StorageUrl(k))]) : n \in 0..FetchMaxCandidates}
    /\ book_name = TitleOf(1)
    /\ dl_i = 0
    /\ pdf_response = None
    /\ success = None
    /\ disk = <<>>
    /\ requested = <<>>
    /\ saved = 0
    /\ accepted = None
    /\ RunIdle

NextFetch == DownloadStep(Responses)

SpecFetch == InitFetch /\ [][NextFetch]_vars

(***************************************************************************)
(* Properties.                                                             *)
(***************************************************************************)
\* what the resolver returned, when it returned a book
FoundIndex == Val(found.catalog_index)
FoundPosition == Val(found.catalog_position)
Returned == pc = "resolve_ret"
ReturnedBook == Returned /\ ~IsNone(found.book_info)

\* C1: when every shard fetch of the call succeeded and 1 <= n <= total, the
\* resolver returns one (catalog_index, catalog_position) with
\* catalog_position < size[catalog_index], the sizes before catalog_index
\* summing to less than n and the sizes through it to at least n; the book
\* returned is the one stored at that place.
C1_ResolvesWithinCoveringShard ==
    (Returned /\ skipped = {} /\ 1 <= sequence_number
       /\ sequence_number <= TotalBooks(catalog))
    => /\ ~IsNone(found.book_info)
       /\ FoundIndex \in 0..(Len(catalog) - 1)
       /\ FoundPosition >= 0
       /\ FoundPosition < Sizes(catalog)[FoundIndex + 1]
       /\ SumTo(Sizes(catalog), FoundIndex) < sequence_number
       /\ SumTo(Sizes(catalog), FoundIndex + 1) >= sequence_number
       /\ SumTo(Sizes(catalog), FoundIndex) + FoundPosition + 1 = sequence_number
       /\ Val(found.book_info) = catalog[FoundIndex + 1][FoundPosition + 1]

\* sizes [2,3] and n = 4 give shard 1, position 1
C1_Witness ==
    /\ Returned
    /\ skipped = {}
    /\ Sizes(catalog) = <<2, 3>>
    /\ sequence_number = 4
    /\ found.catalog_index = Some(1)
    /\ found.catalog_position = Some(1)

\* C2: for n < 1 and for n above the total number of books the resolver
\* returns (None, None, None), and no list is ever read at a position outside
\* 0..size-1.
C2_OutOfRangeIsNotFound ==
    /\ (Returned /\ (sequence_number < 1 \/ sequence_number > TotalBooks(catalog)))
       => found = NotFound
    /\ ~IsNone(indexed) => (0 <= Val(indexed)[1] /\ Val(indexed)[1] < Val(indexed)[2])

\* n one above the total, every shard fetched, one of them empty
C2_Witness ==
    /\ Returned
    /\ found = NotFound
    /\ TotalBooks(catalog) > 0
    /\ sequence_number = TotalBooks(catalog) + 1
    /\ Len(fetched) = Len(catalog)
    /\ \E k \in 1..Len(catalog) : Len(catalog[k]) = 0

\* C8: a shard whose fetch failed is not counted as empty: no book is
\* returned from a later shard at a position that leaves the failed shard's
\* books out of the count (the formula lets a failed shard pass only when it
\* comes after the returned one or really holds no book).
C8_FailedShardNotTakenAsEmpty ==
    ReturnedBook => \A j \in skipped : j < FoundIndex => Len(catalog[j + 1]) = 0

\* a response the claim wants refused: payload at or below the threshold, or
\* a content-type that does not name PDF, whatever the status
Refusable(r) ==
    r.kind = "response" /\ (r.size <= MinPdfBytes \/ ~IsPdfType(ContentTypeOf(r)))

\* C3: a response at or below 1,000,000 bytes or without a PDF content-type is
\* never saved and never reported as success, whatever its status: the save is
\* not entered, nothing is written for it, and either the next candidate is
\* the one to be requested or, all being requested, the call returns False.
C3_RefusesSmallOrNonPdf ==
    (~IsNone(pdf_response) /\ Refusable(Val(pdf_response)))
    => /\ pc \in {"dl_loop", "dl_ret"}
       /\ saved = 0
       /\ accepted = None
       /\ success # Some(TRUE)
       /\ pc = "dl_loop" => dl_i = Len(requested)
       /\ pc = "dl_ret" => (success = Some(FALSE) /\ Len(requested) = Len(Val(pdf_urls)))

\* a 200 OK HTML page of 500 bytes from the first of several candidates
C3_Witness ==
    /\ pdf_response = Some([kind |-> "response", status_code |-> 200,
                            content_type |-> Some(<<"t", "e", "x", "t", "/", "h", "t", "m", "l">>),
                            size |-> 500])
    /\ pc = "dl_loop"
    /\ requested = <<0>>
    /\ dl_i = 1
    /\ Len(Val(pdf_urls)) > 1
    /\ disk = <<>>

\* C4: candidates are requested in list order, one after the other, each at
\* most once; a candidate is requested only when all before it were requested
\* and failed; nothing is requested after the accepted one; at most one file
\* is written per call.
C4_RankOrderStopAtFirst ==
    pc \in {"dl_enter", "dl_loop", "dl_save", "dl_ret", "interrupted"}
    => /\ requested = [j \in 1..Len(requested) |-> j - 1]
       /\ Len(requested) <= Len(Val(pdf_urls))
       /\ saved <= 1
       /\ ~IsNone(accepted)
          => /\ Val(accepted) = Len(requested) - 1
             /\ saved = 1
             /\ pc = "dl_ret"
             /\ success = Some(TRUE)
       /\ pc = "dl_loop" => (dl_i = Len(requested) /\ saved = 0)
       /\ pc = "dl_save" => (dl_i = Len(requested) - 1 /\ saved = 0)

\* [bad, bad, good]: two failed attempts, then the one write
C4_Witness ==
    /\ pc = "dl_ret"
    /\ Len(Val(pdf_urls)) = 3
    /\ requested = <<0, 1, 2>>
    /\ accepted = Some(2)
    /\ saved = 1
    /\ success = Some(TRUE)

\* C9: the destination never holds a partially written file, also after a
\* write that failed or was interrupted.
C9_NoPartialFile ==
    \A f \in DOMAIN disk : disk[f].complete

(***************************************************************************)
(* The range run, the detail document and the recorded outcomes.           *)
(***************************************************************************)
\* the range run got its shard list and entered the loop
RangeLooping == mode = "range" /\ ~IsNone(catalog_urls)

Ascending(from, k) == [i \in 1..k |-> from + i - 1]

\* the books of the run whose attempt is over
Finished == IF pc \in {"range_loop", "legacy_shard", "legacy_item", "done"}
            THEN Len(attempted) ELSE Len(attempted) - 1

IsFailure(o) == o.result # "ok"
FailedSeqNums == [k \in 1..Len(failed_books) |-> failed_books[k][1]]
FailedOutcomes == SelectSeq(outcomes, IsFailure)

WellFormedCatalog ==
    \A k \in 1..Len(catalog) : \A p \in 1..Len(catalog[k]) :
        ~IsNone(catalog[k][p].id) /\ ~NameRaises(catalog[k][p])

\* C5: in a range run the sequence numbers start, start + 1, ... are attempted
\* once each in ascending order whatever failed before; every book whose
\* attempt is over either counted as a success or added exactly one entry to
\* failed_books (not found, no PDF URLs or download failed); the run is not
\* halted by such a failure, and when the loop ends
\* total_processed + len(failed_books) = end - start + 1.
C5_RangeFailureIsolation ==
    RangeLooping =>
        /\ attempted = Ascending(start, Len(attempted))
        /\ Len(attempted) <= end - start + 1
        /\ total_processed + Len(failed_books) = Finished
        /\ Len(outcomes) = Finished
        /\ \A i \in 1..Len(outcomes) : outcomes[i].loc = attempted[i]
        /\ FailedSeqNums = [k \in 1..Len(FailedOutcomes) |-> FailedOutcomes[k].loc]
        /\ \A k \in 1..Len(failed_books) :
              failed_books[k][3] \in {"Not found", "No PDF URLs", "Download failed"}
        /\ pc = "done" => Len(attempted) = end - start + 1
        /\ pc = "crashed" => ~WellFormedCatalog

\* a finished range run in which a download failed and a later book succeeded
C5_Witness ==
    /\ RangeLooping /\ pc = "done"
    /\ \E i, j \in 1..Len(outcomes) :
          /\ i < j
          /\ outcomes[i].result = "Download failed"
          /\ outcomes[j].result = "ok"
    /\ Len(failed_books) = 1
    /\ total_processed = end - start

\* C6: a range text "a-b" and the text "b-a" give the same run: start is the
\* smaller and end the larger bound, the sequence numbers attempted are
\* min(a,b), min(a,b) + 1, ... in ascending order, and a finished run has
\* attempted all of min(a,b)..max(a,b).
C6_ReversedBoundsNormalized ==
    \A a, b \in 0..MaxSeq :
        (mode = "range" /\ pc # "start" /\ args.book_range = Some(RangeText(a, b))) =>
            /\ start = Min(a, b)
            /\ end = Max(a, b)
            /\ attempted = Ascending(Min(a, b), Len(attempted))
            /\ (RangeLooping /\ pc = "done") => attempted = Ascending(Min(a, b), Max(a, b) - Min(a, b) + 1)

\* the run for "2-1" has finished after attempting 1 and then 2
C6_Witness ==
    /\ mode = "range" /\ pc = "done"
    /\ args.book_range = Some(RangeText(2, 1))
    /\ attempted = <<1, 2>>
    /\ total_processed = 2

\* no item flagged "source" that carries a storage URI
NoUsableSource(d) ==
    \A k \in 1..Len(d) :
        d[k].ti_file_flag = "source" =>
            (IsNone(d[k].ti_storages) \/ Len(Val(d[k].ti_storages)) = 0)

\* C7: get_pdf_url never returns an empty list; when the detail document has
\* no item flagged "source", or no source item with a storage URI, it
\* returns None, and in every mode the download is not called for that
\* book: no artifact request is issued and nothing is written.
C7_NoSourceNoRequest ==
    /\ pdf_urls # Some(<<>>)
    /\ (~IsNone(data) /\ NoUsableSource(Val(data))) =>
          /\ pdf_urls = None
          /\ art_requests = 0
          /\ pc \notin {"dl_enter", "dl_loop", "dl_save", "dl_ret", "interrupted"}
          /\ book_name = <<>> /\ requested = <<>> /\ saved = 0 /\ IsNone(accepted)

\* get_pdf_url has returned for a document whose source item has no storage
C7_Witness ==
    /\ mode = "range" /\ pc = "meta_ret"
    /\ ~IsNone(data)
    /\ \E k \in 1..Len(Val(data)) :
          Val(data)[k].ti_file_flag = "source" /\ Val(data)[k].ti_storages = Some(<<>>)
    /\ NoUsableSource(Val(data))
    /\ pdf_urls = None

\* C10: when a range run or a legacy walk over well-formed records has
\* ended, every attempted book either counted as a success or has an entry
\* in the failure list.
C10_EveryAttemptRecorded ==
    (mode \in {"range", "legacy"} /\ pc = "done" /\ WellFormedCatalog) =>
        Len(attempted) = total_processed + Len(failed_books)

(***************************************************************************)
(* The legacy walk.                                                        *)
(***************************************************************************)
AttemptPcs == {"meta_call", "meta_ret", "dl_enter", "dl_loop", "dl_save", "dl_ret", "interrupted"}

Successes == SelectSeq(outcomes, LAMBDA o : o.result = "ok")

\* C11: in a legacy walk with download_limit = m the number of books
\* downloaded never exceeds m; it equals the number of successful outcomes
\* (failed and skipped books do not count); and once it has reached m no
\* book is under attempt and the last book attempted is the one that
\* succeeded last, so none was attempted after it.
C11_LimitStopsTheWalk ==
    (mode = "legacy" /\ ~IsNone(args.download_limit)) =>
        LET m == Val(args.download_limit)
        IN  /\ total_processed <= m
            /\ total_processed = Len(Successes)
            /\ total_processed >= m =>
                  /\ pc \notin AttemptPcs
                  /\ art_requests = 0
                  /\ IF m = 0 THEN attempted = <<>>
                     ELSE /\ outcomes # <<>>
                          /\ outcomes[Len(outcomes)].result = "ok"
                          /\ outcomes[Len(outcomes)].loc = attempted[Len(attempted)]

\* the walk was ended by the limit after a failure and a success, with a
\* book left unvisited
C11_Witness ==
    /\ mode = "legacy" /\ pc = "done"
    /\ args.download_limit = Some(1) /\ args.table = 0 /\ args.item = 0
    /\ total_processed = 1
    /\ Len(outcomes) = 2 /\ outcomes[1].result = "Download failed"
    /\ TotalBooks(catalog) > Len(attempted)

\* C12: in a legacy walk with single_book = k every book attempted is the
\* k-th item the walk visited, counting from 1 at the first item visited.
C12_SingleIsKthVisited ==
    (mode = "legacy" /\ ~IsNone(args.single_book)) =>
        \A i \in 1..Len(attempted) :
            /\ Val(args.single_book) \in 1..Len(visited)
            /\ attempted[i] = visited[Val(args.single_book)]

\* where the walk enters shard s
Offset(s) == IF s = args.table THEN args.item ELSE 0

VisitedSet == {visited[i] : i \in 1..Len(visited)}

\* the walk ran to the end of the shard list
WalkedThrough ==
    /\ mode = "legacy" /\ pc = "done" /\ ~IsNone(catalog_urls)
    /\ IsNone(args.single_book) /\ IsNone(args.download_limit)

\* C13: the legacy walk requests the shards table, table + 1, ... in order,
\* once each; the items visited lie in shards it got, in ascending order
\* without gaps; the first item visited in shard table is at position item
\* and in every later shard at position 0, whether or not the request for
\* shard table succeeded; and a walk over well-formed records that ran to
\* the end has requested every shard from table on and visited every item
\* from the entry position on of every shard it got.
C13_WalkOrder ==
    (mode = "legacy" /\ ~IsNone(catalog_urls)) =>
        /\ \A i \in 1..Len(shard_log) : shard_log[i].shard = args.table + i - 1
        /\ \A i \in 1..Len(visited) :
              LET s == visited[i][1]
                  p == visited[i][2]
              IN  /\ \E k \in 1..Len(shard_log) : shard_log[k].shard = s /\ shard_log[k].ok
                  /\ p < Len(catalog[s + 1])
                  /\ IF i > 1 /\ visited[i - 1][1] = s
                     THEN p = visited[i - 1][2] + 1
                     ELSE /\ p = Offset(s)
                          /\ i > 1 => visited[i - 1][1] < s
        /\ (WalkedThrough /\ WellFormedCatalog) =>
              /\ Len(shard_log) = Max(0, Len(catalog) - args.table)
              /\ \A k \in 1..Len(shard_log) :
                    shard_log[k].ok =>
                        \A p \in Offset(shard_log[k].shard)..(Len(catalog[shard_log[k].shard + 1]) - 1) :
                            <<shard_log[k].shard, p>> \in VisitedSet

\* the request for the first shard failed and the next shard was walked
\* from position 0 although the walk was started at position 1
C13_Witness ==
    /\ WalkedThrough /\ WellFormedCatalog
    /\ args.table = 0 /\ args.item = 1
    /\ shard_log = <<[shard |-> 0, ok |-> FALSE], [shard |-> 1, ok |-> TRUE]>>
    /\ visited = <<<<1, 0>>, <<1, 1>>>>

(***************************************************************************)
(* The fallback loop.                                                      *)
(***************************************************************************)
\* the response that passed the checks could not be saved (OSError)
SaveFailed == pc = "dl_loop" /\ ~IsNone(pdf_response) /\ Accepts(Val(pdf_response))

\* C14: after the save of an accepted candidate raised OSError no further
\* candidate is requested.
C14_SaveFailureEndsAttempt == [][SaveFailed => requested' = requested]_vars

\* C15: the candidates are requested in rank order, each at most once; a
\* refused or failed request leaves the loop running with the next
\* candidate; the call returns False exactly when no payload was saved, and
\* then every one of the N candidates has been requested once.
C15_LoopNeverAborts ==
    LET N == Len(Val(pdf_urls))
    IN  /\ requested = [k \in 1..Len(requested) |-> k - 1]
        /\ Len(requested) <= N
        /\ (pc = "dl_loop" /\ ~IsNone(pdf_response) /\ ~Accepts(Val(pdf_response))) =>
              dl_i = Len(requested)
        /\ pc = "dl_ret" =>
              /\ success = Some(FALSE) <=> IsNone(accepted)
              /\ success = Some(FALSE) => Len(requested) = N

\* all candidates were requested, the last one timed out, and the call
\* returned False
C15_Witness ==
    /\ pc = "dl_ret" /\ success = Some(FALSE)
    /\ Len(Val(pdf_urls)) = FetchMaxCandidates
    /\ Len(requested) = FetchMaxCandidates
    /\ Val(pdf_response).kind = "Timeout"

(***************************************************************************)
(* What a run requests.                                                    *)
(***************************************************************************)
\* get_parts has raised, or the range text was refused before it was called
NoShardList == mode \in {"sequence", "range", "legacy"} /\ pc \notin {"main", "start"}
               /\ IsNone(catalog_urls)

\* C16: when get_parts fails in a by-sequence run, a range run or a legacy
\* walk, the run is over: no shard was or is requested, get_pdf_url and the
\* download were not called, no book was attempted and no file was written.
C16_NoShardListNoRun ==
    NoShardList =>
        /\ pc = "done"
        /\ fetched = <<>> /\ skipped = {} /\ shard_log = <<>>
        /\ book_id = <<>> /\ IsNone(data)
        /\ art_requests = 0 /\ requested = <<>>
        /\ attempted = <<>> /\ outcomes = <<>>
        /\ DOMAIN disk = {}

\* the range text was parsed and get_parts raised
C16_Witness ==
    /\ NoShardList /\ mode = "range"
    /\ args.book_range = Some(RangeText(1, 2))
    /\ start = 1 /\ end = 2

\* C17: when a by-sequence run has rejected a sequence number below 1, neither
\* the shard list nor any shard has been requested.
C17_RejectedBeforeAnyRequest ==
    (mode = "sequence" /\ pc = "resolve_ret" /\ Val(args.sequence_number) < 1) =>
        /\ IsNone(catalog_urls)
        /\ fetched = <<>> /\ skipped = {}

(***************************************************************************)
(* Resolving twice.                                                        *)
(***************************************************************************)
\* C18: a second call of get_book_by_sequence_number with the same shard
\* list, the same shard contents, the same n and the same requests failing
\* returns the triple (book, catalog_index, catalog_position) the first call
\* returned, after fetching the same shards.
C18_ResolveTwiceSame ==
    (outcomes # <<>> /\ pc = "resolve_ret") =>
        /\ found = outcomes[1].result.found
        /\ fetched = outcomes[1].result.fetched
        /\ skipped = outcomes[1].result.skipped

\* the second call has returned a book from a shard other than the first,
\* after a request that failed
C18_Witness ==
    /\ outcomes # <<>> /\ pc = "resolve_ret"
    /\ ~IsNone(found.book_info)
    /\ Val(found.catalog_index) > 0
    /\ skipped # {}

(***************************************************************************)
(* The shards of a range run.                                              *)
(***************************************************************************)
\* C19: two distinct sequence numbers of one range run never resolve to the
\* same shard and position.
C19_DistinctNumbersDistinctBooks ==
    mode = "range" =>
        \A i, j \in 1..Len(resolved) :
            (resolved[i].shard = resolved[j].shard
             /\ resolved[i].position = resolved[j].position) => i = j

(***************************************************************************)
(* The status of a response.                                               *)
(***************************************************************************)
\* a 2xx status, a PDF content type and a payload above the threshold
GoodResponse(r) ==
    /\ r.kind = "response"
    /\ r.status_code \in 200..299
    /\ IsPdfType(ContentTypeOf(r))
    /\ r.size > MinPdfBytes

\* C20: a request answered with a 2xx status, a PDF content type and a
\* payload above the threshold goes on to save that payload.
C20_Any2xxPdfAccepted ==
    [][(pc = "dl_loop" /\ requested' # requested /\ GoodResponse(Val(pdf_response')))
          => pc' = "dl_save"]_vars

(***************************************************************************)
(* The running base of the resolver.                                       *)
(***************************************************************************)
RECURSIVE SizeSum(_)
\* the number of books in the shards whose indices are listed
SizeSum(indices) ==
    IF indices = <<>> THEN 0
    ELSE Len(catalog[Val(catalog_urls)[Head(indices) + 1]]) + SizeSum(Tail(indices))

\* the shards counted into the base: all that were fetched, but the one the
\* book was found in
Counted == IF pc = "resolve_ret" /\ ~IsNone(found.book_info)
           THEN SubSeq(fetched, 1, Len(fetched) - 1) ELSE fetched

\* C21: during a call of get_book_by_sequence_number with n >= 1 the base
\* current_sequence is at least 1 and equals 1 plus the sizes of the shards
\* fetched so far (at the return of a book: of the shards before the book's
\* own); the shards are requested in index order, each once, every one
\* either fetched or failed.
C21_BaseIsOnePlusFetchedSizes ==
    (pc \in {"resolve_loop", "resolve_ret"} /\ sequence_number >= 1) =>
        /\ current_sequence >= FirstSequence
        /\ current_sequence = 1 + SizeSum(Counted)
        /\ \A i, j \in 1..Len(fetched) : i < j => fetched[i] < fetched[j]
        /\ \A i \in 1..Len(fetched) : fetched[i] \notin skipped
        /\ LET requests == skipped \cup {fetched[i] : i \in 1..Len(fetched)}
               upto == IF pc = "resolve_ret" /\ ~IsNone(found.book_info)
                       THEN catalog_index ELSE catalog_index - 1
           IN  requests = 0..upto

\* two shards were counted into the base, with a failed request before them
C21_Witness ==
    /\ pc = "resolve_loop"
    /\ sequence_number >= 1
    /\ Len(fetched) = 2 /\ skipped = {0}
    /\ current_sequence = 1 + ResolveMaxShardSize + 1

(***************************************************************************)
(* The candidates get_pdf_url returns.                                     *)
(***************************************************************************)
UsableAt(d, k) == d[k].ti_file_flag = "source" /\ ~IsNone(d[k].ti_storages)
                  /\ Len(Val(d[k].ti_storages)) > 0

\* the storage URLs of the first source item that has any
SourceStorages(d) ==
    LET k == CHOOSE i \in 1..Len(d) : UsableAt(d, i) /\ \A j \in 1..(i - 1) : ~UsableAt(d, j)
    IN  Val(d[k].ti_storages)

\* C22: for a source item with storage URLs u1..uN get_pdf_url returns N
\* candidates, the i-th being ui with every '-private' turned into
\* '-oversea' and nothing else changed.
C22_CandidatesInStorageOrder ==
    (~IsNone(data) /\ \E k \in 1..Len(Val(data)) : UsableAt(Val(data), k)) =>
        LET u == SourceStorages(Val(data))
        IN  /\ ~IsNone(pdf_urls)
            /\ Len(Val(pdf_urls)) = Len(u)
            /\ \A i \in 1..Len(u) :
                  /\ Len(Val(pdf_urls)[i]) = Len(u[i])
                  /\ \A j \in 1..Len(u[i]) :
                        Val(pdf_urls)[i][j] = IF u[i][j] = "-private" THEN "-oversea" ELSE u[i][j]

\* get_pdf_url has returned for a source item with MaxStorages storage URLs
\* that comes after a preview item
C22_Witness ==
    /\ pc = "meta_ret" /\ ~IsNone(data)
    /\ Len(Val(data)) = 2 /\ Val(data)[1].ti_file_flag = "preview"
    /\ UsableAt(Val(data), 2)
    /\ Len(Val(Val(data)[2].ti_storages)) = MaxStorages
    /\ Len(Val(pdf_urls)) = MaxStorages
    /\ Val(pdf_urls)[1] # Val(pdf_urls)[MaxStorages]

(***************************************************************************)
(* The variant a call of pdf_download runs.                                *)
(***************************************************************************)
\* an argument counts as given when it is neither None nor 0 nor ''
GivenInt(o) == Len(o) = 1 /\ o[1] # 0
GivenText(o) == Len(o) = 1 /\ Len(o[1]) > 0

\* priority: id, sequence, range, cursor
Selected ==
    CASE GivenText(args.book_id) -> "id"
      [] ~GivenText(args.book_id) /\ GivenInt(args.sequence_number) -> "sequence"
      [] ~GivenText(args.book_id) /\ ~GivenInt(args.sequence_number) /\ GivenText(args.book_range) -> "range"
      [] OTHER -> IF GivenInt(args.single_book) \/ GivenInt(args.download_limit)
                     \/ args.table > 0 \/ args.item > 0
                  THEN "legacy" ELSE "none"

NothingRequested ==
    /\ IsNone(catalog_urls)
    /\ fetched = <<>> /\ skipped = {} /\ shard_log = <<>>
    /\ book_id = <<>> /\ IsNone(data)
    /\ art_requests = 0 /\ requested = <<>>
    /\ attempted = <<>> /\ DOMAIN disk = {}

\* C23: a call of pdf_download runs the one variant its arguments select by
\* the priority id, sequence, range, cursor, and leaves the traces of that
\* variant only; when none is selected (all arguments absent, 0 or '') the
\* call ends without any request.
C23_OneVariantByPriority ==
    /\ mode \in {"main", Selected}
    /\ mode \in {"main", "none"} => (NothingRequested /\ pc \in {"main", "done"})
    /\ (shard_log # <<>> \/ visited # <<>>) => Selected = "legacy"
    /\ (resolved # <<>> \/ failed_books # <<>>) => Selected = "range"
    /\ (fetched # <<>> \/ skipped # {}) => Selected \in {"sequence", "range"}
    /\ (attempted # <<>> /\ Selected = "id") => attempted = <<Val(args.book_id)>>
    /\ (attempted # <<>> /\ Selected = "sequence") => attempted = <<Val(args.sequence_number)>>

\* a call given an id, a sequence number, a range and a table has run the
\* by-id variant to a reported outcome
C23_Witness ==
    /\ pc = "done" /\ mode = "id"
    /\ GivenInt(args.sequence_number) /\ GivenText(args.book_range) /\ args.table > 0
    /\ outcomes # <<>>
    /\ IsNone(catalog_urls)

(***************************************************************************)
(* Failed shards of the legacy walk.                                       *)
(***************************************************************************)
FailedShards == {shard_log[k].shard : k \in {i \in 1..Len(shard_log) : ~shard_log[i].ok}}

\* C24: in the legacy walk no item of a shard whose request failed is
\* visited or attempted; after the failure the walk is at the next shard;
\* and book_counter is item plus the number of items visited, so a failed
\* shard adds nothing to it.
C24_FailedShardSkipped ==
    (mode = "legacy" /\ ~IsNone(catalog_urls)) =>
        /\ \A i \in 1..Len(visited) : visited[i][1] \notin FailedShards
        /\ \A i \in 1..Len(attempted) : attempted[i][1] \notin FailedShards
        /\ book_counter = args.item + Len(visited)
        /\ (pc = "legacy_shard" /\ shard_log # <<>>) => t = shard_log[Len(shard_log)].shard + 1
        /\ WalkedThrough => Len(shard_log) = Max(0, Len(catalog) - args.table)

\* the request for shard 0 failed and the single book 1 was the first book
\* of shard 1
C24_Witness ==
    /\ mode = "legacy" /\ pc = "done"
    /\ args.single_book = Some(1) /\ args.table = 0 /\ args.item = 0
    /\ shard_log = <<[shard |-> 0, ok |-> FALSE], [shard |-> 1, ok |-> TRUE]>>
    /\ attempted = <<<<1, 0>>>>
    /\ Len(catalog[1]) > 0

(***************************************************************************)
(* The numbers of the CSV export.                                          *)
(***************************************************************************)
\* C25: when get_book_by_sequence_number, with every shard fetched, returns
\* for the Number of a row of the export, it returns the book whose id is in
\* that row.
C25_NumberIsSequenceNumber ==
    (mode = "export" /\ pc = "resolve_ret" /\ skipped = {}) =>
        \A row \in DataRows :
            NatOfDigits(row[1]) = sequence_number =>
                /\ ~IsNone(found.book_info)
                /\ Val(found.book_info).id = Some(row[2])

====
